---- MODULE Spec2Model ----
(***************************************************************************)
(* Model of the AI homework grader: src/app.py (first revision, sidebar    *)
(* key + scan/review modes, error boxes drawn on the photo) and            *)
(* src/streamlit_app.py (later revision, setup/scan/review pages,          *)
(* reference answer, history).                                             *)
(*                                                                         *)
(* Pixel coordinates that Python computes as floats (box / 1000 * w) are   *)
(* kept as exact integers in units of 1/1000 pixel.  The float expression  *)
(* int(float(h) * (800 / float(w))) is modelled bit-exactly by HSize.      *)
(***************************************************************************)
EXTENDS Integers, Sequences, FiniteSets, TLC

VARIABLES prog, app, max_score, sl, ref_uploader, last_call, last_event, arg, ret

vars == <<prog, app, max_score, sl, ref_uploader, last_call, last_event, arg, ret>>

(* ------------------------------ bounds --------------------------------- *)

\* longest grading history kept by the model
MaxHist == 1
\* number of distinct object identities id() can return
NumIds == 2

(* --------------------------- small helpers ----------------------------- *)

Max(a, b) == IF a >= b THEN a ELSE b

RECURSIVE Pow2(_)
Pow2(n) == IF n = 0 THEN 1 ELSE 2 * Pow2(n - 1)

\* floor(log2(n)) for n >= 1
RECURSIVE FloorLog2(_)
FloorLog2(n) == IF n < 2 THEN 0 ELSE 1 + FloorLog2(n \div 2)

(* ---------------------- streamlit_app.py: resizing --------------------- *)

base_width == 800

\* binary exponent of the double base_width / w: largest e with 2^e * w <= 800
RECURSIVE ExpUp(_, _)
ExpUp(w, e) == IF Pow2(e + 1) * w <= base_width THEN ExpUp(w, e + 1) ELSE e

RECURSIVE ExpDown(_, _)
ExpDown(w, k) == IF base_width * Pow2(k) < w THEN ExpDown(w, k + 1) ELSE k

QuotExp(w) == IF w <= base_width THEN ExpUp(w, 0) ELSE 0 - ExpDown(w, 0)

\* 2^s mod w, by repeated squaring
RECURSIVE Pow2Mod(_, _)
Pow2Mod(s, w) ==
    IF s = 0 THEN 1 % w
    ELSE IF s % 2 = 0
         THEN LET x == Pow2Mod(s \div 2, w) IN (x * x) % w
         ELSE (2 * Pow2Mod(s - 1, w)) % w

\* (base_width * 2^s) mod w
ScaledMod(s, w) == ((base_width % w) * Pow2Mod(s, w)) % w

\* w * 2^s * (800/w - w_percent): the signed error of rounding 800/w to the
\* nearest double (53-bit significand, ties to even); > 0 when w_percent is
\* below the exact quotient
QuotErr(w) ==
    LET s == 52 - QuotExp(w)
        R == ScaledMod(s, w)
        lastBit == (2 * ScaledMod(s - 1, w)) \div w
    IN  IF 2 * R < w THEN R
        ELSE IF 2 * R > w THEN R - w
        ELSE IF lastBit % 2 = 0 THEN R ELSE R - w

\* h_size = int(float(h) * w_percent), w_percent = 800 / float(w), in doubles
HSize(w, h) ==
    LET T == base_width * h
        N == T \div w
        r == QuotErr(w)
        eN == FloorLog2(N)
        gap == IF Pow2(eN) = N THEN 2 ELSE 1
    IN  IF T % w # 0 THEN N
        ELSE IF r <= 0 THEN N
        ELSE IF 2 * h * r * gap > w * Pow2(eN - QuotExp(w)) THEN N - 1
        ELSE N

NoFile == [name |-> "", w |-> 0, h |-> 0, mode |-> "none"]
NoImage == [w |-> 0, h |-> 0, mode |-> "none", file |-> NoFile]

\* Image.open(image_file): the decoded upload, unchanged
ImageOpen(f) == [w |-> f.w, h |-> f.h, mode |-> f.mode, file |-> f]

\* faulty variant: the image is converted but never resized
process_image_for_ai_nosize(f) ==
    [raised |-> FALSE, img |-> [w |-> f.w, h |-> f.h, mode |-> "RGB", file |-> f]]

\* resize to width 800 keeping the aspect ratio; Image.resize rejects a
\* height of 0 with ValueError
process_image_for_ai(f) ==
    LET h_size == HSize(f.w, f.h)
    IN  IF h_size < 1
        THEN [raised |-> TRUE, img |-> NoImage]
        ELSE [raised |-> FALSE,
              img |-> [w |-> base_width, h |-> h_size, mode |-> "RGB", file |-> f]]

(* ------------------------------ drawing -------------------------------- *)

\* faulty variant: the height is scaled by the width
RescaleBoxW(box, w, h) == <<box[1] * w, box[2] * w, box[3] * w, box[4] * w>>

\* app.py: x = box[i] / 1000 * w, y = box[i] / 1000 * h, in 1/1000 pixel
RescaleBox(box, w, h) == <<box[1] * w, box[2] * h, box[3] * w, box[4] * h>>

\* faulty variant: no length check, a short box is drawn as an empty rectangle
RECURSIVE HighlightsAll(_, _, _)
HighlightsAll(errors, w, h) ==
    IF errors = <<>> THEN <<>>
    ELSE LET b == Head(errors).box
         IN  <<IF Len(b) = 4 THEN RescaleBox(b, w, h) ELSE <<0, 0, 0, 0>>>>
             \o HighlightsAll(Tail(errors), w, h)

\* app.py: one rounded rectangle per error whose box has four coordinates
RECURSIVE Highlights(_, _, _)
Highlights(errors, w, h) ==
    IF errors = <<>> THEN <<>>
    ELSE LET b == Head(errors).box
         IN  (IF Len(b) = 4 THEN <<RescaleBox(b, w, h)>> ELSE <<>>)
             \o Highlights(Tail(errors), w, h)

\* app.py stamp rectangle [left, top, right, bottom] in pixels
AppStamp(w, h) ==
    LET margin == 30
        box_w == Max(w \div 4, 250)
        box_h == Max(h \div 8, 140)
    IN  <<w - box_w - margin, margin, w - margin, margin + box_h>>

\* streamlit_app.py stamp rectangle: int(w * 0.25), int(stamp_size * 0.55)
Stamp(w, h) ==
    LET stamp_size == w \div 4
        stamp_h == (stamp_size * 55) \div 100
        margin == 20
    IN  <<w - stamp_size - margin, margin, w - margin, margin + stamp_h>>

NoDrawing == [w |-> 0, h |-> 0, file |-> NoFile, highlights |-> <<>>,
              stamp |-> <<0, 0, 0, 0>>, score |-> 0, max_score |-> 0]

draw_result_on_image(image, result) ==
    [w |-> image.w, h |-> image.h, file |-> image.file,
     highlights |-> Highlights(result.errors, image.w, image.h),
     stamp |-> AppStamp(image.w, image.h),
     score |-> result.score, max_score |-> result.max_score]

draw_result(image, result) ==
    [w |-> image.w, h |-> image.h, file |-> image.file,
     highlights |-> <<>>,
     stamp |-> Stamp(image.w, image.h),
     score |-> result.score, max_score |-> result.max_score]

(* ------------------------------ grading -------------------------------- *)

NoResult == [score |-> 0 - 1, max_score |-> 0, short_comment |-> "", errors |-> <<>>,
             analysis_md |-> ""]

\* what the remote model call does: fail, or answer with some JSON text
ReplyFail(kind) == [kind |-> kind, score |-> 0, short_comment |-> "", errors |-> <<>>]
ReplyOk(score, comment, errors) ==
    [kind |-> "ok", score |-> score, short_comment |-> comment, errors |-> errors]

\* modes PIL can write as JPEG; saving any other mode raises OSError
JpegModes == {"RGB", "L", "CMYK"}

\* app.py: image.save(format="JPEG", quality=85) with no mode conversion
app_pil_to_base64(image) ==
    [raised |-> image.mode \notin JpegModes,
     data |-> [quality |-> 85, w |-> image.w, h |-> image.h, file |-> image.file]]

\* streamlit_app.py: converts to RGB first, quality 65
pil_to_base64(image) ==
    [raised |-> FALSE,
     data |-> [quality |-> 65, w |-> image.w, h |-> image.h, file |-> image.file]]

NoCall == [prog |-> "none", student |-> NoImage, ref |-> NoImage, max_score |-> 0,
           api_key |-> "", raised |-> FALSE, result |-> NoResult]

\* the try block of both revisions: any failure of the call, of json.loads or
\* of building an ErrorItem yields the zero-score result
TryBlock(reply, max_score_arg, errComment) ==
    IF reply.kind # "ok"
    THEN [score |-> 0, max_score |-> max_score_arg, short_comment |-> errComment,
          errors |-> <<>>, analysis_md |-> reply.kind]
    ELSE [score |-> reply.score, max_score |-> max_score_arg,
          short_comment |-> reply.short_comment, errors |-> reply.errors,
          analysis_md |-> "analysis"]

\* app.py grade_with_qwen: pil_to_base64 runs before the try block
app_grade_with_qwen(image, max_score_arg, api_key, reply) ==
    LET enc == app_pil_to_base64(image)
    IN  [prog |-> "app", student |-> image, ref |-> NoImage, max_score |-> max_score_arg,
         api_key |-> api_key, raised |-> enc.raised,
         result |-> IF enc.raised THEN NoResult
                    ELSE TryBlock(reply, max_score_arg, "[Error]")]

\* streamlit_app.py grade_with_qwen: both encodings run before the try block
grade_with_qwen(student_image, ref_image, current_max_score, api_key, reply) ==
    LET enc == pil_to_base64(student_image)
        encRef == IF ref_image # NoImage THEN pil_to_base64(ref_image).raised ELSE FALSE
        bad == enc.raised \/ encRef
    IN  [prog |-> "streamlit", student |-> student_image, ref |-> ref_image,
         max_score |-> current_max_score, api_key |-> api_key, raised |-> bad,
         result |-> IF bad THEN NoResult
                    ELSE TryBlock(reply, current_max_score, "Error")]

(* --------------------------- inputs of the UI -------------------------- *)

Keys == {"sk-1"}
Scores == {50, 100}

FA == [name |-> "a.jpg", w |-> 1600, h |-> 1200, mode |-> "RGB"]
FB == [name |-> "b.png", w |-> 400, h |-> 300, mode |-> "RGBA"]
FC == [name |-> "a.jpg", w |-> 29, h |-> 145, mode |-> "RGB"]
FD == [name |-> "d.jpg", w |-> 1700, h |-> 2, mode |-> "RGB"]
StudentFiles == {FA, FB, FC, FD}

FRef == [name |-> "key.jpg", w |-> 1000, h |-> 707, mode |-> "RGB"]
RefFiles == {FRef}

Err(d, b) == [description |-> d, box |-> b]
UiReplies ==
    {ReplyFail("neterr"), ReplyFail("badjson"), ReplyFail("baditem"),
     ReplyOk(7, "good", <<Err("e1", <<100, 200, 300, 400>>), Err("e2", <<>>)>>)}

Event(n, k) == [name |-> n, key |-> k]

(* ------------------------- streamlit_app.py: main ---------------------- *)

SlInit ==
    [page |-> "setup", api_key |-> "", current_score_setting |-> 100,
     score_locked |-> FALSE, history |-> <<>>, ref_image |-> NoImage,
     last_processed |-> "", clean_image |-> NoImage, clean_image_id |-> 0,
     grade_result |-> NoResult, final_image |-> NoDrawing, current_img_id |-> 0]

\* faulty variant: the reference image is dropped while on the review page
SidebarForget(s, ref_file) ==
    [s EXCEPT !.ref_image =
        IF ref_file # NoFile /\ s.page # "review"
        THEN process_image_for_ai(ref_file).img ELSE NoImage]

\* sidebar, run first in every script run: the reference image is rebuilt
\* from the uploader widget
Sidebar(s, ref_file) ==
    [s EXCEPT !.ref_image =
        IF ref_file # NoFile THEN process_image_for_ai(ref_file).img ELSE NoImage]

Record(s, res) ==
    [file |-> s.last_processed, score |-> res.score, max_score |-> res.max_score,
     short_comment |-> res.short_comment,
     mode |-> IF s.ref_image # NoImage THEN "ref" ELSE "free"]

\* the grading block of the review page, run when regrade holds
ReviewBody(s, call, reply, regrade) ==
    IF regrade
    THEN LET c == grade_with_qwen(s.clean_image, s.ref_image,
                                  s.current_score_setting, s.api_key, reply)
             s1 == [s EXCEPT !.current_img_id = s.clean_image_id]
         IN  IF c.raised THEN [s |-> s1, call |-> c]
             ELSE [s |-> [s1 EXCEPT !.grade_result = c.result,
                                    !.final_image = draw_result(s.clean_image, c.result),
                                    !.history = Append(s.history, Record(s, c.result))],
                   call |-> c]
    ELSE [s |-> s, call |-> call]

\* faulty variant: grades only when grade_result is missing, ignoring the image id
ReviewNoIdCheck(s, call, reply) ==
    ReviewBody(s, call, reply, s.grade_result = NoResult)

\* review page up to st.image: grade once per clean image
Review(s, call, reply) ==
    ReviewBody(s, call, reply,
               s.grade_result = NoResult \/ s.current_img_id # s.clean_image_id)

\* a script run in which no widget of the page body fired
PageRun(s, call, reply) ==
    IF s.page = "review" THEN Review(s, call, reply) ELSE [s |-> s, call |-> call]

\* faulty variant: goes back to scan without deleting the per-student keys
NextKeepAll(s) == [s EXCEPT !.page = "scan"]

\* the 'next (keep settings)' button
NextStudent(s) ==
    [s EXCEPT !.clean_image = NoImage, !.clean_image_id = 0, !.grade_result = NoResult,
              !.final_image = NoDrawing, !.last_processed = "", !.current_img_id = 0,
              !.page = "scan"]

\* faulty variant: the form accepts an empty key
SubmitAny(s, key_input) == [s EXCEPT !.api_key = key_input, !.page = "scan"]

\* login form
Submit(s, key_input) ==
    IF key_input = "" THEN s ELSE [s EXCEPT !.api_key = key_input, !.page = "scan"]

SlFrame == UNCHANGED <<prog, app, max_score, arg, ret>>

S_Submit(k) ==
    /\ prog = "streamlit" /\ sl.page = "setup"
    /\ sl' = Submit(Sidebar(sl, ref_uploader), k)
    /\ last_event' = Event("submit", k)
    /\ UNCHANGED <<ref_uploader, last_call>>
    /\ SlFrame

S_SetScore(v) ==
    /\ prog = "streamlit" /\ sl.page = "scan" /\ ~sl.score_locked
    /\ sl' = [Sidebar(sl, ref_uploader) EXCEPT !.current_score_setting = v]
    /\ last_event' = Event("score", "")
    /\ UNCHANGED <<ref_uploader, last_call>>
    /\ SlFrame

S_SetLock(b) ==
    /\ prog = "streamlit" /\ sl.page = "scan" /\ b # sl.score_locked
    /\ sl' = [Sidebar(sl, ref_uploader) EXCEPT !.score_locked = b]
    /\ last_event' = Event("lock", "")
    /\ UNCHANGED <<ref_uploader, last_call>>
    /\ SlFrame

\* a photo arrives on the scan page; when it is new it is resized, the page
\* becomes review and the rerun grades it
S_Upload(f, reply, newid) ==
    /\ prog = "streamlit" /\ sl.page = "scan"
    /\ Len(sl.history) < MaxHist
    /\ newid # sl.clean_image_id
    /\ LET s1 == Sidebar(sl, ref_uploader)
           p == process_image_for_ai(f)
           s2 == [s1 EXCEPT !.last_processed = f.name]
           s3 == [s2 EXCEPT !.clean_image = p.img, !.clean_image_id = newid,
                            !.page = "review"]
           out == IF s1.last_processed = f.name THEN [s |-> s1, call |-> last_call]
                  ELSE IF p.raised THEN [s |-> s2, call |-> last_call]
                  ELSE Review(Sidebar(s3, ref_uploader), last_call, reply)
       IN  sl' = out.s /\ last_call' = out.call
    /\ last_event' = Event("upload", "")
    /\ UNCHANGED ref_uploader
    /\ SlFrame

S_Next(reply) ==
    /\ prog = "streamlit" /\ sl.page = "review"
    /\ sl.grade_result # NoResult
    /\ LET out == Review(Sidebar(sl, ref_uploader), last_call, reply)
       IN  /\ sl' = Sidebar(NextStudent(out.s), ref_uploader)
           /\ last_call' = out.call
    /\ last_event' = Event("next", "")
    /\ UNCHANGED ref_uploader
    /\ SlFrame

S_SetRef(f, reply) ==
    /\ prog = "streamlit" /\ f # ref_uploader
    /\ ref_uploader' = f
    /\ LET out == PageRun(Sidebar(sl, f), last_call, reply)
       IN  sl' = out.s /\ last_call' = out.call
    /\ last_event' = Event("ref", "")
    /\ SlFrame

S_ClearHistory(reply) ==
    /\ prog = "streamlit" /\ sl.history # <<>>
    /\ LET s1 == [Sidebar(sl, ref_uploader) EXCEPT !.history = <<>>]
           out == PageRun(Sidebar(s1, ref_uploader), last_call, reply)
       IN  sl' = out.s /\ last_call' = out.call
    /\ last_event' = Event("clear", "")
    /\ UNCHANGED ref_uploader
    /\ SlFrame

S_ChangeKey ==
    /\ prog = "streamlit"
    /\ sl' = [Sidebar(sl, ref_uploader) EXCEPT !.page = "setup"]
    /\ last_event' = Event("changekey", "")
    /\ UNCHANGED <<ref_uploader, last_call>>
    /\ SlFrame

(* ------------------------------ app.py: main --------------------------- *)

AppInit ==
    [api_key |-> "", mode |-> "scan", captured_image |-> NoImage,
     grade_result |-> NoResult, stamped_image |-> NoDrawing]

\* the review branch up to st.image
AppReview(a, ms, call, reply) ==
    IF a.grade_result = NoResult
    THEN LET c == app_grade_with_qwen(a.captured_image, ms, a.api_key, reply)
         IN  IF c.raised THEN [s |-> a, call |-> c, shown |-> FALSE]
             ELSE [s |-> [a EXCEPT !.grade_result = c.result,
                                   !.stamped_image =
                                       draw_result_on_image(a.captured_image, c.result)],
                   call |-> c, shown |-> TRUE]
    ELSE [s |-> a, call |-> call, shown |-> TRUE]

\* the main flow of a run in which neither the camera nor a button fired
AppMain(a, ms, call, reply) ==
    IF a.api_key = "" THEN [s |-> a, call |-> call, shown |-> FALSE]
    ELSE IF a.mode = "scan" THEN [s |-> a, call |-> call, shown |-> FALSE]
    ELSE AppReview(a, ms, call, reply)

\* the 'next student' button
AppNext(a) ==
    [a EXCEPT !.captured_image = NoImage, !.grade_result = NoResult,
              !.stamped_image = NoDrawing, !.mode = "scan"]

AppFrame == UNCHANGED <<prog, sl, ref_uploader, arg, ret>>

A_SaveKey(k, reply) ==
    /\ prog = "app"
    /\ LET out == AppMain([app EXCEPT !.api_key = k], max_score, last_call, reply)
       IN  app' = out.s /\ last_call' = out.call
    /\ last_event' = Event("save", k)
    /\ UNCHANGED max_score
    /\ AppFrame

A_SetMaxScore(v, reply) ==
    /\ prog = "app" /\ v # max_score
    /\ max_score' = v
    /\ LET out == AppMain(app, v, last_call, reply)
       IN  app' = out.s /\ last_call' = out.call
    /\ last_event' = Event("slider", "")
    /\ AppFrame

\* a photo arrives on the scan page; the rerun grades and stamps it
A_Capture(f, reply) ==
    /\ prog = "app" /\ app.api_key # "" /\ app.mode = "scan"
    /\ LET a1 == [app EXCEPT !.captured_image = ImageOpen(f), !.mode = "review"]
           out == AppMain(a1, max_score, last_call, reply)
       IN  app' = out.s /\ last_call' = out.call
    /\ last_event' = Event("capture", "")
    /\ UNCHANGED max_score
    /\ AppFrame

A_Next(reply) ==
    /\ prog = "app" /\ app.api_key # "" /\ app.mode = "review"
    /\ app.grade_result # NoResult
    /\ LET out == AppMain(app, max_score, last_call, reply)
           a2 == AppNext(out.s)
           rer == AppMain(a2, max_score, out.call, reply)
       IN  app' = rer.s /\ last_call' = rer.call
    /\ last_event' = Event("next", "")
    /\ UNCHANGED max_score
    /\ AppFrame

(* ------------------------- the two applications ------------------------ *)

NoArg == [w |-> 0, h |-> 0, errors |-> <<>>]
NoRet == [op |-> "none", img |-> NoDrawing, raised |-> FALSE, size |-> <<0, 0>>]

(* ------------------- the image functions on their own ------------------ *)

Dims == {1, 29, 145, 200, 279, 280, 400, 800, 1000, 1600, 3000}
GridVals == {0, 1, 500, 999, 1000}

\* boxes the prompt asks for: x1 <= x2 and y1 <= y2 on the 0..1000 grid
Boxes4 ==
    {b \in {<<x1, y1, x2, y2>> : x1 \in GridVals, y1 \in GridVals,
                                 x2 \in GridVals, y2 \in GridVals} :
        b[1] <= b[3] /\ b[2] <= b[4]}

\* error lists of a GradeResult: boxes with four coordinates, and the empty
\* or short boxes the later prompt asks for
ErrorLists ==
    {<<>>}
    \cup {<<Err("e1", b)>> : b \in Boxes4}
    \cup {<<Err("e1", <<>>)>>, <<Err("e1", <<10, 20>>)>>}
    \cup {<<Err("e1", <<0, 0, 500, 500>>), Err("e2", b)>> :
              b \in {<<>>, <<500, 500, 1000, 1000>>}}
    \cup {<<Err("e1", <<>>), Err("e2", <<1, 1, 999, 999>>), Err("e3", <<10, 20>>)>>}

ArgImage == [w |-> arg.w, h |-> arg.h, mode |-> "RGB",
             file |-> [name |-> "x.jpg", w |-> arg.w, h |-> arg.h, mode |-> "RGB"]]
ArgResult == [score |-> 7, max_score |-> 100, short_comment |-> "good",
              errors |-> arg.errors, analysis_md |-> "analysis"]

FnFrame == UNCHANGED <<prog, app, max_score, sl, ref_uploader, last_call, last_event, arg>>

F_process_image_for_ai ==
    /\ prog = "fn" /\ ret.op # "process"
    /\ LET p == process_image_for_ai(ArgImage.file)
       IN  ret' = [op |-> "process", img |-> NoDrawing, raised |-> p.raised,
                   size |-> <<p.img.w, p.img.h>>]
    /\ FnFrame

F_draw_result_on_image ==
    /\ prog = "fn" /\ ret.op # "draw_result_on_image"
    /\ ret' = [op |-> "draw_result_on_image",
               img |-> draw_result_on_image(ArgImage, ArgResult),
               raised |-> FALSE, size |-> <<arg.w, arg.h>>]
    /\ FnFrame

F_draw_result ==
    /\ prog = "fn" /\ ret.op # "draw_result"
    /\ ret' = [op |-> "draw_result", img |-> draw_result(ArgImage, ArgResult),
               raised |-> FALSE, size |-> <<arg.w, arg.h>>]
    /\ FnFrame

Ids == 1..NumIds

\* the remote model is consulted only in a run that reaches a grading call
SlReplies(s) ==
    IF s.page = "review" /\ (s.grade_result = NoResult \/ s.current_img_id # s.clean_image_id)
    THEN UiReplies ELSE {ReplyFail("neterr")}
AppReplies(a) ==
    IF a.mode = "review" /\ a.grade_result = NoResult
    THEN UiReplies ELSE {ReplyFail("neterr")}

\* either application in a fresh session, or the image functions applied to
\* an image size and an error list
Init ==
    /\ prog \in {"app", "streamlit", "fn"}
    /\ app = AppInit
    /\ max_score = 100
    /\ sl = SlInit
    /\ ref_uploader = NoFile
    /\ last_call = NoCall
    /\ last_event = Event("start", "")
    /\ arg \in IF prog = "fn" THEN [w : Dims, h : Dims, errors : ErrorLists] ELSE {NoArg}
    /\ ret = NoRet

Next ==
    \/ \E k \in Keys \cup {""} : S_Submit(k)
    \/ \E v \in Scores : S_SetScore(v)
    \/ \E b \in BOOLEAN : S_SetLock(b)
    \/ \E f \in StudentFiles, r \in UiReplies, i \in Ids : S_Upload(f, r, i)
    \/ \E r \in SlReplies(sl) : S_Next(r)
    \/ \E f \in RefFiles \cup {NoFile}, r \in SlReplies(sl) : S_SetRef(f, r)
    \/ \E r \in SlReplies(sl) : S_ClearHistory(r)
    \/ S_ChangeKey
    \/ \E k \in Keys \cup {""}, r \in AppReplies(app) : A_SaveKey(k, r)
    \/ \E v \in Scores, r \in AppReplies(app) : A_SetMaxScore(v, r)
    \/ \E f \in StudentFiles, r \in UiReplies : A_Capture(f, r)
    \/ \E r \in AppReplies(app) : A_Next(r)
    \/ F_process_image_for_ai
    \/ F_draw_result_on_image
    \/ F_draw_result

Spec == Init /\ [][Next]_vars

(* ------------------------------ properties ----------------------------- *)

HasFour(e) == Len(e.box) = 4
FourBoxes == SelectSeq(arg.errors, HasFour)

\* C1: every rectangle draw_result_on_image draws for a box on the 0..1000
\* grid is the box scaled by w/1000 and h/1000, lies inside [0,w] x [0,h]
\* and keeps x1 <= x2, y1 <= y2 (coordinates in 1/1000 pixel)
C1_BoxInsideImage ==
    ret.op = "draw_result_on_image" =>
        \A i \in 1..Len(ret.img.highlights) :
            LET r == ret.img.highlights[i]
            IN  /\ i <= Len(FourBoxes)
                /\ r[1] = FourBoxes[i].box[1] * arg.w /\ r[2] = FourBoxes[i].box[2] * arg.h
                /\ r[3] = FourBoxes[i].box[3] * arg.w /\ r[4] = FourBoxes[i].box[4] * arg.h
                /\ 0 <= r[1] /\ r[1] <= r[3] /\ r[3] <= 1000 * arg.w
                /\ 0 <= r[2] /\ r[2] <= r[4] /\ r[4] <= 1000 * arg.h

C1_Witness ==
    /\ ret.op = "draw_result_on_image"
    /\ arg.w = 1600 /\ arg.h = 200
    /\ ret.img.highlights = <<<<1600, 100000, 1600000, 200000>>>>

\* C2 as written: every drawing routine puts one highlight per returned error
C2_OneHighlightPerError ==
    ret.op \in {"draw_result_on_image", "draw_result"} =>
        Len(ret.img.highlights) = Len(arg.errors)

\* C2 amended: app.py draws one highlight for each error whose box has four
\* coordinates, in order; streamlit_app.py's draw_result draws no highlight
C2_HighlightsPerRevision ==
    /\ ret.op = "draw_result_on_image" =>
           /\ Len(ret.img.highlights) = Len(FourBoxes)
           /\ \A i \in 1..Len(FourBoxes) :
                  ret.img.highlights[i] =
                      <<FourBoxes[i].box[1] * arg.w, FourBoxes[i].box[2] * arg.h,
                        FourBoxes[i].box[3] * arg.w, FourBoxes[i].box[4] * arg.h>>
    /\ ret.op = "draw_result" => ret.img.highlights = <<>>

C2_Witness ==
    /\ ret.op = "draw_result_on_image"
    /\ Len(arg.errors) = 3
    /\ Len(ret.img.highlights) = 1

\* C4: the stamp rectangle of both drawing routines stays inside the image
C4_StampInsideImage ==
    ret.op \in {"draw_result_on_image", "draw_result"} =>
        LET s == ret.img.stamp
        IN  /\ 0 <= s[1] /\ s[1] < s[3] /\ s[3] <= arg.w
            /\ 0 <= s[2] /\ s[2] < s[4] /\ s[4] <= arg.h

Called == last_call # NoCall

C5_RefLockedIn ==
    [][Len(sl'.history) > Len(sl.history) =>
          /\ last_call'.ref.file = ref_uploader'
          /\ (ref_uploader' # NoFile => last_call'.ref # NoImage)
          /\ last_call'.student = sl'.clean_image
          /\ (sl'.history[Len(sl'.history)].mode = "ref") <=> (last_call'.ref # NoImage)]_vars

C5_Witness ==
    /\ prog = "streamlit" /\ sl.page = "review"
    /\ ref_uploader = FRef /\ last_call.ref.file = FRef
    /\ Len(sl.history) = 1 /\ sl.history[1].mode = "ref"
    /\ last_event.name = "upload"

IsNextStep == last_event'.name = "next" /\ last_event.name # "next"

\* C6: the 'next' button clears the per-student state, returns to scan and
\* keeps the key, the max score, the lock, the reference image and the history
C6_NextKeepsSettings ==
    [][IsNextStep =>
          /\ prog = "streamlit" =>
                 /\ sl'.page = "scan"
                 /\ sl'.clean_image = NoImage /\ sl'.grade_result = NoResult
                 /\ sl'.final_image = NoDrawing /\ sl'.last_processed = ""
                 /\ sl'.current_img_id = 0
                 /\ sl'.api_key = sl.api_key
                 /\ sl'.current_score_setting = sl.current_score_setting
                 /\ sl'.score_locked = sl.score_locked
                 /\ sl'.ref_image = sl.ref_image /\ ref_uploader' = ref_uploader
                 /\ sl'.history = sl.history
          /\ prog = "app" =>
                 /\ app'.mode = "scan"
                 /\ app'.captured_image = NoImage /\ app'.grade_result = NoResult
                 /\ app'.stamped_image = NoDrawing
                 /\ app'.api_key = app.api_key /\ max_score' = max_score]_vars

C6_Witness ==
    /\ prog = "streamlit" /\ last_event.name = "next" /\ sl.page = "scan"
    /\ sl.history # <<>> /\ sl.ref_image # NoImage
    /\ sl.score_locked /\ sl.current_score_setting = 50

FailureResult(c) ==
    /\ c.result.score = 0 /\ c.result.errors = <<>>
    /\ c.result.analysis_md \in {"neterr", "badjson", "baditem"}

\* C7: a grading attempt never raises; every failure yields the zero-score
\* result and max_score is always the value passed in
C7_NoExceptionFromGrading ==
    Called =>
        /\ ~last_call.raised
        /\ last_call.result.max_score = last_call.max_score
        /\ last_call.result.analysis_md # "analysis" => FailureResult(last_call)

\* C8: no page past setup and no grading call with an empty key; an empty
\* submit changes nothing; an app.py run with an empty key does no work
C8_NeverEmptyKey ==
    /\ [](/\ sl.page \in {"scan", "review"} => sl.api_key # ""
          /\ Called => last_call.api_key # "")
    /\ [][/\ last_event' = Event("submit", "") =>
                 sl'.page = sl.page /\ sl'.api_key = sl.api_key
          /\ prog = "app" /\ app'.api_key = "" =>
                 /\ app'.mode = app.mode
                 /\ app'.captured_image = app.captured_image
                 /\ app'.grade_result = app.grade_result
                 /\ app'.stamped_image = app.stamped_image
                 /\ last_call' = last_call]_vars

C8_Witness ==
    /\ prog = "streamlit" /\ last_event = Event("submit", "")
    /\ sl.page = "setup" /\ sl.api_key # "" /\ sl.history # <<>>

\* C9: the page is one of the known ones, the review page always has its
\* captured image, and a stamped image shown on it is the drawing of the
\* session's grade_result, which was produced for the stored image
C9_PageStateConsistent ==
    /\ app.mode \in {"scan", "review"}
    /\ sl.page \in {"setup", "scan", "review"}
    /\ app.mode = "review" => app.captured_image # NoImage
    /\ sl.page = "review" => sl.clean_image # NoImage
    /\ app.mode = "review" /\ app.stamped_image # NoDrawing =>
           /\ app.grade_result # NoResult
           /\ app.stamped_image = draw_result_on_image(app.captured_image, app.grade_result)
           /\ last_call.student = app.captured_image
           /\ last_call.result = app.grade_result
    /\ sl.page = "review" /\ sl.final_image # NoDrawing =>
           /\ sl.grade_result # NoResult
           /\ sl.final_image = draw_result(sl.clean_image, sl.grade_result)
           /\ last_call.student = sl.clean_image
           /\ last_call.result = sl.grade_result

C9_Witness ==
    /\ prog = "streamlit" /\ sl.page = "review"
    /\ sl.clean_image.file = FB /\ sl.final_image.file = FB
    /\ sl.grade_result.score = 7 /\ sl.final_image.score = 7
    /\ sl.history[1].file = "b.png"

====
